---- MODULE Spec2Model ----
(***************************************************************************)
(* Model of src/src/vehicle_bridge.rs: the VehicleBridge of the zenoh/CARLA *)
(* bridge.  Two execution contexts share the bridge: the zenoh delivery     *)
(* context, which runs the subscriber callbacks, and the step context,      *)
(* which runs VehicleBridge::step once per simulation tick.                 *)
(*                                                                          *)
(* Numbers: f32/f64 values are modelled by integers.  Angles held in        *)
(* radians are counted in units of pi/4, so that to_degrees is x * 45.      *)
(* The heading rate is counted in units of 1e-5.                            *)
(***************************************************************************)
EXTENDS Integers, Sequences, FiniteSets, TLC

\* ---------------------------------------------------------------- bounds
NumCommands == 2      \* distinct well-formed control_cmd messages on the bus
NumOutputs == 2       \* distinct outputs the external controller may produce

\* ------------------------------------------------- AckermannControlCommand
TimeStamp(s, n) == [sec |-> s, nsec |-> n]

\* Variant: the command is constructed with a non-zero acceleration.
CommandWithAcceleration ==
    [ts |-> TimeStamp(0, 0),
     lateral |-> [ts |-> TimeStamp(0, 0),
                  steering_tire_angle |-> 0,
                  steering_tire_rotation_rate |-> 0],
     longitudinal |-> [ts |-> TimeStamp(0, 0),
                       speed |-> 0,
                       acceleration |-> 1,
                       jerk |-> 0]]

\* The value current_ackermann_cmd is constructed with (all fields zero).
ZeroCommand ==
    [ts |-> TimeStamp(0, 0),
     lateral |-> [ts |-> TimeStamp(0, 0),
                  steering_tire_angle |-> 0,
                  steering_tire_rotation_rate |-> 0],
     longitudinal |-> [ts |-> TimeStamp(0, 0),
                       speed |-> 0,
                       acceleration |-> 0,
                       jerk |-> 0]]

\* The leaves of AckermannControlCommand in declaration order: the order in
\* which CDR lays them out on the wire and in which a copy moves them.
Layout ==
    << <<"ts", "sec">>, <<"ts", "nsec">>,
       <<"lateral", "ts", "sec">>, <<"lateral", "ts", "nsec">>,
       <<"lateral", "steering_tire_angle">>,
       <<"lateral", "steering_tire_rotation_rate">>,
       <<"longitudinal", "ts", "sec">>, <<"longitudinal", "ts", "nsec">>,
       <<"longitudinal", "speed">>,
       <<"longitudinal", "acceleration">>,
       <<"longitudinal", "jerk">> >>

Get(c, p) ==
    IF Len(p) = 2 THEN c[p[1]][p[2]] ELSE c[p[1]][p[2]][p[3]]

Put(c, p, v) ==
    IF Len(p) = 2
    THEN [c EXCEPT ![p[1]][p[2]] = v]
    ELSE [c EXCEPT ![p[1]][p[2]][p[3]] = v]

\* ------------------------------------------------------------ CDR payloads
CdrLe == 1                   \* representation identifier written by the peer
KnownRepresentations == {0, 1, 2, 3}
UnknownHeader == <<7>>

\* What the autonomy stack puts on the wire for a command: the encapsulation
\* header followed by the leaves in declaration order.
Encode(c) == <<CdrLe>> \o [i \in 1..Len(Layout) |-> Get(c, Layout[i])]

RECURSIVE Fill(_, _, _)
Fill(c, words, i) ==
    IF i > Len(Layout) THEN c
    ELSE Fill(Put(c, Layout[i], words[i]), words, i + 1)

\* Result<AckermannControlCommand, cdr::Error>
Ok(c) == [ok |-> TRUE, cmd |-> <<c>>]
Err == [ok |-> FALSE, cmd |-> << >>]

\* cdr::deserialize_from(sample.payload.reader(), Infinite): the header must
\* name a known representation and every leaf must be present; bytes after
\* the last leaf are not looked at.
Decode(payload) ==
    IF Len(payload) = 0 \/ payload[1] \notin KnownRepresentations
    THEN Err
    ELSE IF Len(payload) < 1 + Len(Layout)
    THEN Err
    ELSE Ok(Fill(ZeroCommand, Tail(payload), 1))

\* The well-formed commands the autonomy stack sends.
MkCommand(k) ==
    [ts |-> TimeStamp(k, 10 * k),
     lateral |-> [ts |-> TimeStamp(k, 10 * k + 1),
                  steering_tire_angle |-> IF k % 2 = 1 THEN k ELSE -k,
                  steering_tire_rotation_rate |-> k + 1],
     longitudinal |-> [ts |-> TimeStamp(k, 10 * k + 2),
                       speed |-> 3 * k,
                       acceleration |-> 2 - 2 * k,
                       jerk |-> k + 2]]

Commands == {MkCommand(k) : k \in 1..NumCommands}

WellFormed == {Encode(c) : c \in Commands} \cup {Encode(c) \o <<0>> : c \in Commands}

Malformed ==
    {SubSeq(Encode(c), 1, n) : c \in Commands, n \in {0, 1, 5, Len(Layout)}}
    \cup {UnknownHeader \o Tail(Encode(c)) : c \in Commands}

ControlCmdPayloads == WellFormed \cup Malformed

\* gear_cmd and gate_mode_cmd payloads are never looked at.
OtherPayloads == {<< >>, <<CdrLe, 2>>, UnknownHeader}

\* ------------------------------------------------------------------ actor
\* What the simulator may report for the actor.
ActorStates ==
    {[velocity |-> <<0, 0, 0>>, wheel |-> 0, pitch |-> 0],
     [velocity |-> <<3, 4, 0>>, wheel |-> 2, pitch |-> 1]}
ElapsedSecs == {1, 2}

\* Vector3::norm, exact on the vectors above.
Norm(v) ==
    LET sq == v[1] * v[1] + v[2] * v[2] + v[3] * v[3]
    IN  CHOOSE n \in 0..sq : n * n = sq

\* carla::rpc::VehicleControl of a freshly spawned actor.
IdleControl ==
    [throttle |-> 0, steer |-> 0, brake |-> 0, hand_brake |-> FALSE,
     reverse |-> FALSE, manual_gear_shift |-> FALSE, gear |-> 0]

\* ------------------------------------------------------------- controller
\* carla_ackermann::VehicleController is an external crate; its control law
\* is not part of this repository.  Its step may return any of these.
MkOutput(k) ==
    [throttle |-> k, brake |-> NumOutputs - k, steer |-> k - 1,
     reverse |-> (k % 2 = 0), hand_brake |-> (k = NumOutputs)]

Outputs == {MkOutput(k) : k \in 1..NumOutputs}

ZeroTarget == [steering_angle |-> 0, speed |-> 0, accel |-> 0]

\* f32::to_degrees on angles counted in units of pi/4.
ToDegrees(x) == x * 45

\* ------------------------------------------------------------------ state
VARIABLES
    constructed,            \* VehicleBridge::new has returned
    current_ackermann_cmd,  \* the value inside Arc<Mutex<AckermannControlCommand>>
    mutex,                  \* owner of that Mutex: "unlocked", "callback", "step"
    speed,                  \* Arc<AtomicF32>
    controller,             \* VehicleController: the target it was given
    actor,                  \* the simulated Vehicle
    bus,                    \* last message put on velocity_status (<<>> if none)
    cb,                     \* the control_cmd callback: position and locals
    st,                     \* VehicleBridge::step: position and locals
    completed,              \* history: last command whose update completed
    used,                   \* history: `completed` when step took the lock
    effects,                \* history: side effects of the current step call
    calls                   \* history: what the controller was called with

vars == <<constructed, current_ackermann_cmd, mutex, speed, controller, actor,
          bus, cb, st, completed, used, effects, calls>>

NoEffects == [put |-> 0, store |-> 0, snapshot |-> 0, set_target |-> 0,
              ctrl_step |-> 0, apply_control |-> 0]

\* target_from: `used` of the step that last called set_target.
\* stepped: the arguments of the controller's step in the current step call.
NoCalls == [target_from |-> << >>, stepped |-> << >>]

CbIdle == [pc |-> "idle", result |-> Err, cmd |-> ZeroCommand, i |-> 0]

StIdle ==
    [pc |-> "idle", elapsed_sec |-> 0,
     velocity |-> <<0, 0, 0>>, velocity_msg |-> << >>, i |-> 0,
     steering_tire_angle |-> 0, speed |-> 0, acceleration |-> 0,
     put |-> "none", current_speed |-> 0, pitch_radians |-> 0, output |-> << >>]

\* VehicleBridge::new up to the declaration of the three subscribers.
Init ==
    /\ constructed = FALSE
    /\ current_ackermann_cmd = ZeroCommand
    /\ mutex = "unlocked"
    /\ speed = 0
    /\ controller = [target |-> ZeroTarget]
    /\ \E a \in ActorStates :
         actor = [velocity |-> a.velocity, wheel |-> a.wheel, pitch |-> a.pitch,
                  control |-> IdleControl]
    /\ bus = << >>
    /\ cb = CbIdle
    /\ st = StIdle
    /\ completed = << >>
    /\ used = << >>
    /\ effects = NoEffects
    /\ calls = NoCalls

\* new returns the bridge.  _subscriber_gate_mode is a local of new and is
\* dropped here, which undeclares the gate_mode_cmd subscription.
NewReturn ==
    /\ ~constructed
    /\ constructed' = TRUE
    /\ UNCHANGED <<calls, current_ackermann_cmd, mutex, speed, controller, actor, bus,
                   cb, st, completed, used, effects>>

\* ------------------------------------------------------ delivery context
\* The zenoh session hands samples to the subscriber callbacks from its
\* receive context, one sample at a time.

\* Lines 65-66: the control_cmd callback decodes the sample.
ControlCmdDeliver(payload) ==
    /\ cb.pc = "idle"
    /\ cb' = [cb EXCEPT !.pc = "decoded", !.result = Decode(payload)]
    /\ UNCHANGED <<calls, constructed, current_ackermann_cmd, mutex, speed, controller,
                   actor, bus, st, completed, used, effects>>

\* Variant: a failed decode falls back to the default command
\* (result.unwrap_or_default()) instead of returning.
ControlCmdLetElseDefault ==
    /\ cb.pc = "decoded"
    /\ cb' = [cb EXCEPT !.pc = "lock",
                        !.cmd = IF cb.result.ok THEN cb.result.cmd[1] ELSE ZeroCommand,
                        !.result = Err]
    /\ UNCHANGED <<calls, constructed, current_ackermann_cmd, mutex, speed, controller,
                   actor, bus, st, completed, used, effects>>

\* Lines 67-69: let Ok(cmd) = result else { return; }
ControlCmdLetElse ==
    /\ cb.pc = "decoded"
    /\ cb' = IF cb.result.ok
             THEN [cb EXCEPT !.pc = "lock", !.cmd = cb.result.cmd[1], !.result = Err]
             ELSE CbIdle
    /\ UNCHANGED <<calls, constructed, current_ackermann_cmd, mutex, speed, controller,
                   actor, bus, st, completed, used, effects>>

\* Variant: a lock that excludes no one.
AcquireNoExclusion(who) == mutex' = who

\* Mutex::lock: enabled when no one owns the mutex.
Acquire(who) == mutex = "unlocked" /\ mutex' = who

\* Dropping the MutexGuard.
Release == mutex' = "unlocked"

\* Line 70: cloned_cmd.lock().unwrap()
ControlCmdLock ==
    /\ cb.pc = "lock"
    /\ Acquire("callback")
    /\ cb' = [cb EXCEPT !.pc = "write", !.i = 1]
    /\ UNCHANGED <<calls, constructed, current_ackermann_cmd, speed, controller, actor,
                   bus, st, completed, used, effects>>

\* Variant: the update copies the lateral and longitudinal parts but leaves
\* the stored header stamp as it was.
ControlCmdWriteKeepStamp ==
    /\ cb.pc = "write"
    /\ cb.i <= Len(Layout)
    /\ current_ackermann_cmd' =
           IF Layout[cb.i][1] = "ts"
           THEN current_ackermann_cmd
           ELSE Put(current_ackermann_cmd, Layout[cb.i], Get(cb.cmd, Layout[cb.i]))
    /\ cb' = [cb EXCEPT !.i = cb.i + 1]
    /\ UNCHANGED <<calls, constructed, mutex, speed, controller, actor, bus, st,
                   completed, used, effects>>

\* Line 71: *cloned_cmd = cmd, one leaf per step, the guard held throughout.
ControlCmdWrite ==
    /\ cb.pc = "write"
    /\ cb.i <= Len(Layout)
    /\ current_ackermann_cmd' =
           Put(current_ackermann_cmd, Layout[cb.i], Get(cb.cmd, Layout[cb.i]))
    /\ cb' = [cb EXCEPT !.i = cb.i + 1]
    /\ UNCHANGED <<calls, constructed, mutex, speed, controller, actor, bus, st,
                   completed, used, effects>>

\* Variant: the guard is leaked (std::mem::forget) and the mutex stays owned.
ControlCmdUnlockLeaksGuard ==
    /\ cb.pc = "write"
    /\ cb.i > Len(Layout)
    /\ mutex' = mutex
    /\ completed' = <<cb.cmd>>
    /\ cb' = CbIdle
    /\ UNCHANGED <<calls, constructed, current_ackermann_cmd, speed, controller, actor,
                   bus, st, used, effects>>

\* Line 72: the closure ends, the guard is dropped, the callback returns.
ControlCmdUnlock ==
    /\ cb.pc = "write"
    /\ cb.i > Len(Layout)
    /\ Release
    /\ completed' = <<cb.cmd>>
    /\ cb' = CbIdle
    /\ UNCHANGED <<calls, constructed, current_ackermann_cmd, speed, controller, actor,
                   bus, st, used, effects>>

\* Lines 75-81: a gate_mode_cmd sample enters its callback.  The subscription
\* lives only until new returns.
GateModeDeliver(payload) ==
    /\ ~constructed
    /\ cb.pc = "idle"
    /\ cb' = [cb EXCEPT !.pc = "gate_mode_cmd"]
    /\ UNCHANGED <<calls, constructed, current_ackermann_cmd, mutex, speed, controller,
                   actor, bus, st, completed, used, effects>>

\* Lines 77-79: the closure body is empty.
GateModeCallback ==
    /\ cb.pc = "gate_mode_cmd"
    /\ cb' = CbIdle
    /\ UNCHANGED <<calls, constructed, current_ackermann_cmd, mutex, speed, controller,
                   actor, bus, st, completed, used, effects>>

\* Lines 83-85: a gear_cmd sample enters its callback.
GearCmdDeliver(payload) ==
    /\ cb.pc = "idle"
    /\ cb' = [cb EXCEPT !.pc = "gear_cmd"]
    /\ UNCHANGED <<calls, constructed, current_ackermann_cmd, mutex, speed, controller,
                   actor, bus, st, completed, used, effects>>

\* Variant: the commented-out body is live and applies a control of its own.
GearCmdCallbackApplies ==
    /\ cb.pc = "gear_cmd"
    /\ cb' = CbIdle
    /\ actor' = [actor EXCEPT !.control.reverse = TRUE, !.control.gear = 0 - 1]
    /\ UNCHANGED <<calls, constructed, current_ackermann_cmd, mutex, speed, controller,
                   bus, st, completed, used, effects>>

\* Lines 85-103: the closure body is commented out.
GearCmdCallback ==
    /\ cb.pc = "gear_cmd"
    /\ cb' = CbIdle
    /\ UNCHANGED <<calls, constructed, current_ackermann_cmd, mutex, speed, controller,
                   actor, bus, st, completed, used, effects>>

\* ------------------------------------------------------------- simulator
\* The simulator moves the actor on its own schedule.
SimulatorAdvance ==
    /\ \E a \in ActorStates :
         /\ a.velocity # actor.velocity
         /\ actor' = [actor EXCEPT !.velocity = a.velocity, !.wheel = a.wheel,
                                   !.pitch = a.pitch]
    /\ UNCHANGED <<calls, constructed, current_ackermann_cmd, mutex, speed, controller,
                   bus, cb, st, completed, used, effects>>

\* ------------------------------------------------------------------- step
\* Variant: step actuates first and publishes afterwards.
StepBodyActuateFirst == <<"update_carla_control", "pub_current_velocity">>

\* Variant: step publishes and never actuates.
StepBodyPublishOnly == <<"pub_current_velocity">>

\* Lines 209-212: the body of step, in program order.
StepBody == <<"pub_current_velocity", "update_carla_control">>

Entry(fn) == IF fn = "pub_current_velocity" THEN "velocity" ELSE "lock"

\* Where step continues when fn returns.
After(fn) ==
    LET i == CHOOSE j \in 1..Len(StepBody) : StepBody[j] = fn
    IN  IF i < Len(StepBody) THEN Entry(StepBody[i + 1]) ELSE "return"

Did(what) == effects' = [effects EXCEPT ![what] = @ + 1]

\* The driver calls step(elapsed_sec); calls do not overlap.
StepCall(elapsed_sec) ==
    /\ constructed
    /\ st.pc = "idle"
    /\ st' = [StIdle EXCEPT !.pc = Entry(StepBody[1]), !.elapsed_sec = elapsed_sec]
    /\ effects' = NoEffects
    /\ UNCHANGED <<calls, constructed, current_ackermann_cmd, mutex, speed, controller,
                   actor, bus, cb, completed, used>>

StepReturn ==
    /\ st.pc = "return"
    /\ st' = StIdle
    /\ used' = << >>
    /\ calls' = [calls EXCEPT !.stepped = << >>]
    /\ UNCHANGED <<constructed, current_ackermann_cmd, mutex, speed, controller,
                   actor, bus, cb, completed, effects>>

\* -- pub_current_velocity
\* Line 121: let velocity = self.actor.velocity()
PubVelocity ==
    /\ st.pc = "velocity"
    /\ st' = [st EXCEPT !.pc = "wheel", !.velocity = actor.velocity]
    /\ UNCHANGED <<calls, constructed, current_ackermann_cmd, mutex, speed, controller,
                   actor, bus, cb, completed, used, effects>>

\* -0.00866 in units of 1e-5.
HeadingRateScale == 0 - 866

\* Variant: the heading rate keeps the sign of the wheel angle.
CurrentVelocitySameSign(velocity, wheel_steer_angle) ==
    [header |-> [ts |-> TimeStamp(0, 0), frameid |-> ""],
     longitudinal_velocity |-> Norm(velocity),
     lateral_velocity |-> 0,
     heading_rate |-> wheel_steer_angle * 866]

\* Lines 124-137: the CurrentVelocity message.
CurrentVelocity(velocity, wheel_steer_angle) ==
    [header |-> [ts |-> TimeStamp(0, 0), frameid |-> ""],
     longitudinal_velocity |-> Norm(velocity),
     lateral_velocity |-> 0,
     heading_rate |-> wheel_steer_angle * HeadingRateScale]

PubBuildMsg ==
    /\ st.pc = "wheel"
    /\ st' = [st EXCEPT !.pc = "put",
                        !.velocity_msg = <<CurrentVelocity(st.velocity, actor.wheel)>>]
    /\ UNCHANGED <<calls, constructed, current_ackermann_cmd, mutex, speed, controller,
                   actor, bus, cb, completed, used, effects>>

\* Variant: the result of put is dropped instead of unwrapped.
PubPutIgnoreErr(ok) ==
    /\ st.pc = "put"
    /\ IF ok
       THEN /\ bus' = st.velocity_msg
            /\ effects' = [effects EXCEPT !.put = @ + 1]
            /\ st' = [st EXCEPT !.pc = "store", !.put = "Ok"]
       ELSE /\ st' = [st EXCEPT !.pc = "store", !.put = "Err"]
            /\ UNCHANGED <<bus, effects>>
    /\ UNCHANGED <<calls, constructed, current_ackermann_cmd, mutex, speed, controller,
                   actor, cb, completed, used>>

\* Lines 142-143: serialize, put(encoded).res().unwrap().  The put either
\* succeeds or returns Err, and unwrap panics on Err.
PubPut(ok) ==
    /\ st.pc = "put"
    /\ IF ok
       THEN /\ bus' = st.velocity_msg
            /\ Did("put")
            /\ st' = [st EXCEPT !.pc = "store", !.put = "Ok"]
       ELSE /\ st' = [st EXCEPT !.pc = "panicked", !.put = "Err"]
            /\ UNCHANGED <<bus, effects>>
    /\ UNCHANGED <<calls, constructed, current_ackermann_cmd, mutex, speed, controller,
                   actor, cb, completed, used>>

\* Variant: the scalar is stored from a second query of the actor.
PubStoreRequery ==
    /\ st.pc = "store"
    /\ speed' = Norm(actor.velocity)
    /\ effects' = [effects EXCEPT !.store = @ + 1]
    /\ st' = [st EXCEPT !.pc = After("pub_current_velocity")]
    /\ UNCHANGED <<calls, constructed, current_ackermann_cmd, mutex, controller, actor,
                   bus, cb, completed, used>>

\* Lines 144-145: self.speed.store(longitudinal_velocity, Relaxed)
PubStore ==
    /\ st.pc = "store"
    /\ speed' = st.velocity_msg[1].longitudinal_velocity
    /\ Did("store")
    /\ st' = [st EXCEPT !.pc = After("pub_current_velocity")]
    /\ UNCHANGED <<calls, constructed, current_ackermann_cmd, mutex, controller, actor,
                   bus, cb, completed, used>>

\* -- update_carla_control
\* Line 163: self.current_ackermann_cmd.lock().unwrap()
CtlLock ==
    /\ st.pc = "lock"
    /\ Acquire("step")
    /\ used' = completed
    /\ st' = [st EXCEPT !.pc = "read", !.i = 1]
    /\ UNCHANGED <<calls, constructed, current_ackermann_cmd, speed, controller, actor,
                   bus, cb, completed, effects>>

\* Lines 150-162: the leaves the pattern binds, and the locals they go to.
Bindings ==
    << [leaf |-> <<"lateral", "steering_tire_angle">>, local |-> "steering_tire_angle"],
       [leaf |-> <<"longitudinal", "speed">>, local |-> "speed"],
       [leaf |-> <<"longitudinal", "acceleration">>, local |-> "acceleration"] >>

\* Lines 150-163: one leaf is copied out of the guarded value.
CtlRead ==
    /\ st.pc = "read"
    /\ st.i <= Len(Bindings)
    /\ st' = [st EXCEPT ![Bindings[st.i].local] =
                            Get(current_ackermann_cmd, Bindings[st.i].leaf),
                        !.i = st.i + 1]
    /\ UNCHANGED <<calls, constructed, current_ackermann_cmd, mutex, speed, controller,
                   actor, bus, cb, completed, used, effects>>

\* Variant: the command is taken out of the store (std::mem::take), which
\* leaves the default command behind.
CtlUnlockTakes ==
    /\ st.pc = "read"
    /\ st.i > Len(Bindings)
    /\ current_ackermann_cmd' = ZeroCommand
    /\ mutex' = "unlocked"
    /\ effects' = [effects EXCEPT !.snapshot = @ + 1]
    /\ st' = [st EXCEPT !.pc = "current_speed", !.i = 0]
    /\ UNCHANGED <<calls, constructed, speed, controller, actor, bus, cb,
                   completed, used>>

\* Variant: the guard is bound to a name and outlives the let statement.
CtlUnlockKeepsGuard ==
    /\ st.pc = "read"
    /\ st.i > Len(Bindings)
    /\ mutex' = mutex
    /\ effects' = [effects EXCEPT !.snapshot = @ + 1]
    /\ st' = [st EXCEPT !.pc = "current_speed", !.i = 0]
    /\ UNCHANGED <<calls, constructed, current_ackermann_cmd, speed, controller, actor,
                   bus, cb, completed, used>>

\* Line 163: the temporary guard is dropped at the end of the let statement.
CtlUnlock ==
    /\ st.pc = "read"
    /\ st.i > Len(Bindings)
    /\ Release
    /\ Did("snapshot")
    /\ st' = [st EXCEPT !.pc = "current_speed", !.i = 0]
    /\ UNCHANGED <<calls, constructed, current_ackermann_cmd, speed, controller, actor,
                   bus, cb, completed, used>>

\* Variant: the current speed is loaded from the scalar instead of queried.
CtlCurrentSpeedFromScalar ==
    /\ st.pc = "current_speed"
    /\ st' = [st EXCEPT !.pc = "pitch", !.current_speed = speed]
    /\ UNCHANGED <<calls, constructed, current_ackermann_cmd, mutex, speed, controller,
                   actor, bus, cb, completed, used, effects>>

\* Line 170: let current_speed = self.actor.velocity().norm()
CtlCurrentSpeed ==
    /\ st.pc = "current_speed"
    /\ st' = [st EXCEPT !.pc = "pitch", !.current_speed = Norm(actor.velocity)]
    /\ UNCHANGED <<calls, constructed, current_ackermann_cmd, mutex, speed, controller,
                   actor, bus, cb, completed, used, effects>>

\* Line 171: the pitch of self.actor.transform().rotation
CtlPitch ==
    /\ st.pc = "pitch"
    /\ st' = [st EXCEPT !.pc = "set_target", !.pitch_radians = actor.pitch]
    /\ UNCHANGED <<calls, constructed, current_ackermann_cmd, mutex, speed, controller,
                   actor, bus, cb, completed, used, effects>>

\* Variant: the steering angle is converted to degrees but not negated.
TargetRequestSameSign(steering_tire_angle, spd, acceleration) ==
    [steering_angle |-> ToDegrees(steering_tire_angle),
     speed |-> spd,
     accel |-> acceleration]

\* Lines 172-176: the TargetRequest built from the copied leaves.
TargetRequest(steering_tire_angle, spd, acceleration) ==
    [steering_angle |-> 0 - ToDegrees(steering_tire_angle),
     speed |-> spd,
     accel |-> acceleration]

\* Variant: the target is built from the shared command at the time of the
\* call instead of from the leaves copied under the lock.
CtlSetTargetFromShared ==
    /\ st.pc = "set_target"
    /\ controller' = [controller EXCEPT !.target =
           TargetRequest(current_ackermann_cmd.lateral.steering_tire_angle,
                         current_ackermann_cmd.longitudinal.speed,
                         current_ackermann_cmd.longitudinal.acceleration)]
    /\ effects' = [effects EXCEPT !.set_target = @ + 1]
    /\ st' = [st EXCEPT !.pc = "ctrl_step"]
    /\ calls' = [calls EXCEPT !.target_from = <<used>>]
    /\ UNCHANGED <<constructed, current_ackermann_cmd, mutex, speed, actor, bus,
                   cb, completed, used>>

CtlSetTarget ==
    /\ st.pc = "set_target"
    /\ controller' = [controller EXCEPT !.target =
           TargetRequest(st.steering_tire_angle, st.speed, st.acceleration)]
    /\ Did("set_target")
    /\ st' = [st EXCEPT !.pc = "ctrl_step"]
    /\ calls' = [calls EXCEPT !.target_from = <<used>>]
    /\ UNCHANGED <<constructed, current_ackermann_cmd, mutex, speed, actor, bus,
                   cb, completed, used>>

\* The arguments of VehicleController::step, by position.
StepArgs(elapsed_sec, current_speed, pitch) ==
    [elapsed_sec |-> elapsed_sec, current_speed |-> current_speed, pitch |-> pitch]

\* Variant: the first two arguments of the controller's step are swapped.
CtlStepSpeedFirst ==
    /\ st.pc = "ctrl_step"
    /\ \E out \in Outputs : st' = [st EXCEPT !.pc = "apply_control", !.output = <<out>>]
    /\ calls' = [calls EXCEPT !.stepped =
           <<StepArgs(st.current_speed, st.elapsed_sec, st.pitch_radians)>>]
    /\ effects' = [effects EXCEPT !.ctrl_step = @ + 1]
    /\ UNCHANGED <<constructed, current_ackermann_cmd, mutex, speed, controller,
                   actor, bus, cb, completed, used>>

\* Lines 181-192: self.controller.step(elapsed_sec, current_speed, pitch)
CtlStep ==
    /\ st.pc = "ctrl_step"
    /\ \E out \in Outputs : st' = [st EXCEPT !.pc = "apply_control", !.output = <<out>>]
    /\ calls' = [calls EXCEPT !.stepped =
           <<StepArgs(st.elapsed_sec, st.current_speed, st.pitch_radians)>>]
    /\ Did("ctrl_step")
    /\ UNCHANGED <<constructed, current_ackermann_cmd, mutex, speed, controller,
                   actor, bus, cb, completed, used>>

\* `x as f32` of an f64.  The controller's throttle, steer and brake are
\* counted in halves of the f32 spacing: an even number is an f32 and is kept,
\* an odd number lies midway between two and goes to the one with the even
\* mantissa.
AsF32(x) ==
    IF x % 2 = 0 THEN x
    ELSE IF (x - 1) % 4 = 0 THEN x - 1 ELSE x + 1

\* Variant: the gear fields follow the output's reverse flag.
VehicleControlGearFromReverse(out) ==
    [throttle |-> AsF32(out.throttle), steer |-> AsF32(out.steer),
     brake |-> AsF32(out.brake),
     hand_brake |-> out.hand_brake, reverse |-> out.reverse,
     manual_gear_shift |-> out.reverse, gear |-> IF out.reverse THEN 0 - 1 ELSE 1]

\* Lines 198-206: the VehicleControl handed to apply_control.
VehicleControl(out) ==
    [throttle |-> AsF32(out.throttle), steer |-> AsF32(out.steer),
     brake |-> AsF32(out.brake),
     hand_brake |-> out.hand_brake, reverse |-> out.reverse,
     manual_gear_shift |-> FALSE, gear |-> 0]

CtlApply ==
    /\ st.pc = "apply_control"
    /\ actor' = [actor EXCEPT !.control = VehicleControl(st.output[1])]
    /\ Did("apply_control")
    /\ st' = [st EXCEPT !.pc = After("update_carla_control")]
    /\ UNCHANGED <<calls, constructed, current_ackermann_cmd, mutex, speed, controller,
                   bus, cb, completed, used>>

\* ------------------------------------------------------------ specification
Next ==
    \/ NewReturn
    \/ \E payload \in ControlCmdPayloads : ControlCmdDeliver(payload)
    \/ ControlCmdLetElse
    \/ ControlCmdLock
    \/ ControlCmdWrite
    \/ ControlCmdUnlock
    \/ \E payload \in OtherPayloads : GateModeDeliver(payload)
    \/ GateModeCallback
    \/ \E payload \in OtherPayloads : GearCmdDeliver(payload)
    \/ GearCmdCallback
    \/ SimulatorAdvance
    \/ \E elapsed_sec \in ElapsedSecs : StepCall(elapsed_sec)
    \/ StepReturn
    \/ PubVelocity
    \/ PubBuildMsg
    \/ \E ok \in BOOLEAN : PubPut(ok)
    \/ PubStore
    \/ CtlLock
    \/ CtlRead
    \/ CtlUnlock
    \/ CtlCurrentSpeed
    \/ CtlPitch
    \/ CtlSetTarget
    \/ CtlStep
    \/ CtlApply

Spec == Init /\ [][Next]_vars

\* -------------------------------------------------------------- scheduling
\* A callback that has been entered runs to its end.
DeliveryProgress ==
    \/ ControlCmdLetElse
    \/ ControlCmdLock
    \/ ControlCmdWrite
    \/ ControlCmdUnlock
    \/ GateModeCallback
    \/ GearCmdCallback

\* A step call that has been entered runs to its end (or to its panic).
StepProgress ==
    \/ PubVelocity
    \/ PubBuildMsg
    \/ \E ok \in BOOLEAN : PubPut(ok)
    \/ PubStore
    \/ CtlLock
    \/ CtlRead
    \/ CtlUnlock
    \/ CtlCurrentSpeed
    \/ CtlPitch
    \/ CtlSetTarget
    \/ CtlStep
    \/ CtlApply
    \/ StepReturn

\* Both contexts are scheduled fairly: a context that can run again and again
\* does run, which for a context waiting in Mutex::lock means that it gets a
\* mutex that is released again and again.  When samples arrive, when the
\* driver calls step and when the simulator moves are left open.
FairSpec ==
    /\ Init
    /\ [][Next]_vars
    /\ SF_vars(DeliveryProgress)
    /\ SF_vars(StepProgress)

\* ================================================================ claims
\* The command the claims call neutral.
NeutralCommand ==
    [ts |-> [sec |-> 0, nsec |-> 0],
     lateral |-> [ts |-> [sec |-> 0, nsec |-> 0], steering_tire_angle |-> 0,
                  steering_tire_rotation_rate |-> 0],
     longitudinal |-> [ts |-> [sec |-> 0, nsec |-> 0], speed |-> 0,
                       acceleration |-> 0, jerk |-> 0]]

\* The last command whose update completed, or the neutral command.
Stored == IF completed = << >> THEN NeutralCommand ELSE completed[1]

\* The command whose update had completed when step took the lock.
UsedCommand == IF used = << >> THEN NeutralCommand ELSE used[1]

\* The three leaves step copies, of a command and of step's locals.
Project(c) ==
    <<c.lateral.steering_tire_angle, c.longitudinal.speed, c.longitudinal.acceleration>>

Snapshot == <<st.steering_tire_angle, st.speed, st.acceleration>>

SnapshotTaken == st.pc = "read" /\ st.i > Len(Bindings)

AfterSnapshot ==
    \/ SnapshotTaken
    \/ st.pc \in {"current_speed", "pitch", "set_target", "ctrl_step", "apply_control"}

\* An update is in flight: decoded and accepted, not yet completed.
UpdateInFlight == cb.pc \in {"lock", "write"}

\* No control_cmd sample has ever decoded successfully.
NeverDecoded ==
    /\ completed = << >>
    /\ ~UpdateInFlight
    /\ ~(cb.pc = "decoded" /\ cb.result.ok)

\* C1: whenever step has finished copying the command out, the three copied
\* leaves all come from one command: the one stored before the update in
\* flight or the one that update carries, never a mix of the two.
C1_AtomicSnapshot ==
    SnapshotTaken =>
        Snapshot \in {Project(Stored)}
                     \cup (IF UpdateInFlight THEN {Project(cb.cmd)} ELSE {})

\* An update is in flight, carrying another command, while step holds a
\* complete copy.
C1_Witness ==
    /\ SnapshotTaken
    /\ cb.pc = "lock"
    /\ completed # << >>
    /\ Project(cb.cmd) # Project(Stored)
    /\ Snapshot = Project(Stored)

\* C2: when the control_cmd callback has failed to decode its sample, its
\* next step is to return: it does not take the lock and the stored command
\* is what it was.
C2_DecodeFailureDrops ==
    [][(cb.pc = "decoded" /\ ~cb.result.ok /\ cb' # cb) =>
          /\ cb' = CbIdle
          /\ mutex' = mutex
          /\ current_ackermann_cmd' = current_ackermann_cmd
          /\ completed' = completed]_vars

\* A malformed sample was just rejected while a received command is stored.
C2_Witness ==
    /\ cb.pc = "decoded"
    /\ ~cb.result.ok
    /\ completed # << >>
    /\ current_ackermann_cmd = completed[1]
    /\ st.pc = "lock"

\* C3: whenever no update is being written, the stored command is the last
\* command whose update completed, or the neutral command if there is none.
C3_StoredIsLatest ==
    mutex # "callback" => current_ackermann_cmd = Stored

\* Two updates have completed and the second one is what is stored.
C3_Witness ==
    /\ cb.pc = "idle"
    /\ completed # << >>
    /\ current_ackermann_cmd = completed[1]
    /\ current_ackermann_cmd = MkCommand(2)
    /\ st.pc = "return"

\* C4: once a step has set the controller's target while no control_cmd
\* sample has ever decoded, that target is the zero request.
C4_NeutralTarget ==
    (effects.set_target > 0 /\ NeverDecoded) =>
        controller.target = [steering_angle |-> 0, speed |-> 0, accel |-> 0]

\* A step has set its target and nothing was ever decoded.
C4_Witness ==
    /\ st.pc = "ctrl_step"
    /\ effects.set_target = 1
    /\ NeverDecoded

\* C5: within a step call, apply_control is reached and performed only after
\* the status message of that call has been put on the bus.
C5_PublishBeforeApply ==
    /\ effects.apply_control <= effects.put
    /\ st.pc = "apply_control" => (effects.put = 1 /\ bus # << >>)

\* A step has both published and applied.
C5_Witness ==
    /\ st.pc = "return"
    /\ effects.put = 1
    /\ effects.apply_control = 1

\* C6: a step call that reaches its return has performed each of its effects
\* exactly once; no effect is ever performed twice in one call; and an
\* operation outside step (a delivered sample, the simulator) performs none.
C6_OncePerTick ==
    /\ [](st.pc = "return" =>
            effects = [put |-> 1, store |-> 1, snapshot |-> 1, set_target |-> 1,
                       ctrl_step |-> 1, apply_control |-> 1])
    /\ [](\A e \in DOMAIN effects : effects[e] <= 1)
    /\ [][st' = st =>
            /\ effects' = effects
            /\ actor'.control = actor.control
            /\ controller' = controller
            /\ bus' = bus]_vars

\* A step is about to return while an update is being written.
C6_Witness ==
    /\ st.pc = "return"
    /\ cb.pc = "write"
    /\ completed # << >>
    /\ effects.apply_control = 1

\* The target the claims expect for a command: the steering angle negated
\* and in degrees (angles are counted in units of pi/4).
ExpectedTarget(c) ==
    [steering_angle |-> 0 - 45 * c.lateral.steering_tire_angle,
     speed |-> c.longitudinal.speed,
     accel |-> c.longitudinal.acceleration]

\* C7: the command a step works with is the one whose update had completed
\* when the step took its snapshot; updates completing later change neither
\* the copied leaves nor the target set in that step.
C7_Adoption ==
    /\ (AfterSnapshot \/ st.pc = "return") => Snapshot = Project(UsedCommand)
    /\ st.pc \in {"ctrl_step", "apply_control"} =>
           controller.target = ExpectedTarget(UsedCommand)

\* An update completed after the snapshot of a step that is still running.
C7_Witness ==
    /\ st.pc = "ctrl_step"
    /\ used # << >>
    /\ completed # used
    /\ controller.target = ExpectedTarget(used[1])

\* C8: a failed put ends the step call there: the call is abandoned with no
\* store to the scalar, no snapshot, no controller call and no actuation, and
\* the failing put changes neither the scalar, the controller, the applied
\* control, the bus nor the stored command; the call is never resumed.
C8_PublishFailureAborts ==
    /\ [](st.put = "Err" =>
            /\ st.pc = "panicked"
            /\ effects = [put |-> 0, store |-> 0, snapshot |-> 0, set_target |-> 0,
                          ctrl_step |-> 0, apply_control |-> 0])
    /\ [][st'.put = "Err" =>
            /\ speed' = speed
            /\ controller' = controller
            /\ actor'.control = actor.control
            /\ bus' = bus
            /\ (st.put # "Err" => current_ackermann_cmd' = current_ackermann_cmd)]_vars
    /\ [][st.pc = "panicked" => st' = st]_vars

\* A put failed in a tick whose message carried a speed other than the one
\* the scalar holds.
C8_Witness ==
    /\ st.pc = "panicked"
    /\ st.put = "Err"
    /\ completed # << >>
    /\ speed # st.velocity_msg[1].longitudinal_velocity

\* C9: the scalar starts at 0; it is stored to only by pub_current_velocity,
\* once per call, after the put of that call succeeded, with the longitudinal
\* velocity of the message just put; at the return of step it holds the
\* longitudinal velocity of the message that step published.
C9_SpeedScalar ==
    /\ speed = 0
    /\ [][(speed' # speed \/ effects'.store > effects.store) =>
            /\ st.pc = "store"
            /\ st.put = "Ok"
            /\ effects.put = 1
            /\ effects.store = 0
            /\ effects'.store = 1
            /\ bus' = bus
            /\ speed' = bus[1].longitudinal_velocity]_vars
    /\ [](st.pc = "return" => speed = bus[1].longitudinal_velocity)

\* A step is about to return; the scalar holds the published speed although
\* the actor has changed speed since.
C9_Witness ==
    /\ st.pc = "return"
    /\ speed = 5
    /\ speed = bus[1].longitudinal_velocity
    /\ Norm(actor.velocity) # speed

\* C10: a gear_cmd or gate_mode_cmd sample enters its callback and leaves it
\* with the stored command, the lock, the scalar, the controller, the bus,
\* the applied control and the step call all as they were.
C10_GearGateNoOp ==
    [][(\/ cb.pc \in {"gear_cmd", "gate_mode_cmd"} /\ cb' # cb
        \/ cb'.pc \in {"gear_cmd", "gate_mode_cmd"} /\ cb' # cb) =>
          /\ cb.pc \in {"idle", "gear_cmd", "gate_mode_cmd"}
          /\ cb'.pc \in {"idle", "gear_cmd", "gate_mode_cmd"}
          /\ current_ackermann_cmd' = current_ackermann_cmd
          /\ completed' = completed
          /\ mutex' = mutex
          /\ speed' = speed
          /\ controller' = controller
          /\ bus' = bus
          /\ actor' = actor
          /\ st' = st]_vars

\* A gear_cmd sample is in its callback in the middle of a step that is
\* about to actuate.
C10_Witness ==
    /\ cb.pc = "gear_cmd"
    /\ st.pc = "apply_control"
    /\ completed # << >>

\* The f32 nearest to an f64 counted in halves of the f32 spacing.
NearestSingle(x) ==
    CHOOSE y \in (x - 1)..(x + 1) :
        /\ y % 2 = 0
        /\ (y # x => y % 4 = 0)

\* C11 as stated: the control applied by a step has manual_gear_shift FALSE
\* and gear 0, and its throttle, steer, brake, hand_brake and reverse are
\* exactly the values of the controller output of that step.
C11_Original ==
    st.pc = "return" =>
        /\ actor.control.manual_gear_shift = FALSE
        /\ actor.control.gear = 0
        /\ actor.control.throttle = st.output[1].throttle
        /\ actor.control.steer = st.output[1].steer
        /\ actor.control.brake = st.output[1].brake
        /\ actor.control.hand_brake = st.output[1].hand_brake
        /\ actor.control.reverse = st.output[1].reverse

\* C11 amended: the control applied by a step has manual_gear_shift FALSE and
\* gear 0; hand_brake and reverse are the output's; throttle, steer and brake
\* are the output's values narrowed to f32.
C11_AppliedControl ==
    st.pc = "return" =>
        /\ actor.control.manual_gear_shift = FALSE
        /\ actor.control.gear = 0
        /\ actor.control.throttle = NearestSingle(st.output[1].throttle)
        /\ actor.control.steer = NearestSingle(st.output[1].steer)
        /\ actor.control.brake = NearestSingle(st.output[1].brake)
        /\ actor.control.hand_brake = st.output[1].hand_brake
        /\ actor.control.reverse = st.output[1].reverse

\* A step has applied an output in reverse with the hand brake on, while a
\* received command is stored.
C11_Witness ==
    /\ st.pc = "return"
    /\ st.output[1].reverse
    /\ st.output[1].hand_brake
    /\ actor.control.reverse
    /\ actor.control.throttle = 2
    /\ completed # << >>

\* C12: the target a step has set carries, for the command stored when the
\* step took its snapshot, the steering tire angle in degrees with the sign
\* inverted (pi/4, counted as 1, gives -45), the speed and the acceleration.
C12_TargetConversion ==
    st.pc \in {"ctrl_step", "apply_control", "return"} =>
        LET theta == UsedCommand.lateral.steering_tire_angle
            target == controller.target
        IN  /\ target.steering_angle + 45 * theta = 0
            /\ (theta = 1 => target.steering_angle = 0 - 45)
            /\ target.speed = UsedCommand.longitudinal.speed
            /\ target.accel = UsedCommand.longitudinal.acceleration

\* A step has set its target from a stored command steering at pi/4.
C12_Witness ==
    /\ st.pc = "ctrl_step"
    /\ used # << >>
    /\ used[1].lateral.steering_tire_angle = 1
    /\ controller.target = [steering_angle |-> 0 - 45, speed |-> 3, accel |-> 0]

\* C13: the message a call builds has the front-left wheel angle times
\* -0.00866 (-866 in units of 1e-5) as heading rate, lateral velocity 0 and
\* the norm of the velocity queried in that call as longitudinal velocity;
\* and that message is what the call puts on the bus.
C13_StatusMessage ==
    [][/\ (st.pc = "velocity" /\ st'.pc = "wheel") => st'.velocity = actor.velocity
       /\ (st.pc = "wheel" /\ st'.pc = "put") =>
             LET m == st'.velocity_msg[1]
                 v == st.velocity
             IN  /\ m.heading_rate = 0 - 866 * actor.wheel
                 /\ m.lateral_velocity = 0
                 /\ m.longitudinal_velocity >= 0
                 /\ m.longitudinal_velocity * m.longitudinal_velocity =
                        v[1] * v[1] + v[2] * v[2] + v[3] * v[3]
       /\ effects'.put > effects.put =>
             /\ Len(st.velocity_msg) = 1
             /\ bus' = st.velocity_msg]_vars

\* A message for a moving actor with a turned wheel is on the bus.
C13_Witness ==
    /\ bus # << >>
    /\ bus[1].heading_rate = 0 - 1732
    /\ bus[1].longitudinal_velocity = 5
    /\ bus[1].lateral_velocity = 0
    /\ st.pc = "store"

\* C17: step owns the mutex only while it copies the command out; from the
\* velocity query of update_carla_control to its return the mutex is not
\* step's, so an update waiting for the lock there finds it free.
C17_LockOnlyWhileCopying ==
    /\ mutex = "step" => st.pc = "read"
    /\ st.pc \in {"current_speed", "pitch", "set_target", "ctrl_step",
                  "apply_control", "return"} =>
           /\ mutex # "step"
           /\ (cb.pc = "lock" => mutex = "unlocked")

\* An update is being written while step is between set_target and the
\* controller's step.
C17_Witness ==
    /\ st.pc = "ctrl_step"
    /\ cb.pc = "write"
    /\ cb.i > 5
    /\ mutex = "callback"

\* C15: when the controller is about to be stepped, set_target has been
\* called once in this step call and the step has not; the target is the one
\* built from the leaves copied in this call, and they were copied after
\* this call's put; the controller is stepped with the elapsed time the step
\* call was given.
C15_TargetBeforeStep ==
    /\ SnapshotTaken => (effects.put = 1 /\ effects.snapshot = 0)
    /\ st.pc = "ctrl_step" => (effects.set_target = 1 /\ effects.ctrl_step = 0)
    /\ st.pc \in {"ctrl_step", "apply_control", "return"} =>
           /\ effects.put = 1
           /\ effects.snapshot = 1
           /\ calls.target_from = <<used>>
           /\ controller.target =
                  [steering_angle |-> 0 - 45 * st.steering_tire_angle,
                   speed |-> st.speed,
                   accel |-> st.acceleration]
    /\ st.pc \in {"apply_control", "return"} =>
           /\ effects.set_target = 1
           /\ effects.ctrl_step = 1
           /\ Len(calls.stepped) = 1
           /\ calls.stepped[1].elapsed_sec = st.elapsed_sec

\* The controller was stepped with an elapsed time of 2 on a target set from
\* a received command.
C15_Witness ==
    /\ st.pc = "apply_control"
    /\ st.elapsed_sec = 2
    /\ calls.stepped[1].elapsed_sec = 2
    /\ used # << >>
    /\ controller.target.speed = 3

\* C16: no operation of step changes the stored command; and a step whose
\* snapshot found the same completed update as the step that last set the
\* target sets the very same target again.
C16_StepIsPureReader ==
    [][/\ st' # st =>
             /\ current_ackermann_cmd' = current_ackermann_cmd
             /\ completed' = completed
       /\ (st.pc = "set_target" /\ st'.pc = "ctrl_step"
             /\ calls.target_from = <<used>>) =>
             controller'.target = controller.target]_vars

\* A step is about to set its target; the previous step set it from the same
\* received command, which is still the stored one.
C16_Witness ==
    /\ st.pc = "set_target"
    /\ used # << >>
    /\ calls.target_from = <<used>>
    /\ controller.target = ExpectedTarget(used[1])
    /\ current_ackermann_cmd = used[1]

\* C18 as stated: the current speed the controller is stepped with equals the
\* longitudinal velocity of the message this step published and the scalar.
C18_Original ==
    st.pc \in {"apply_control", "return"} =>
        /\ calls.stepped[1].current_speed = bus[1].longitudinal_velocity
        /\ calls.stepped[1].current_speed = speed

\* C18 amended: the current speed the controller is stepped with is the norm
\* of the actor's velocity as queried a second time, in update_carla_control
\* after the snapshot; it equals the published longitudinal velocity and the
\* scalar when that query returns the velocity the publication query
\* returned.
C18_ControllerSpeed ==
    /\ [](st.pc \in {"apply_control", "return"} =>
            calls.stepped[1].current_speed = st.current_speed)
    /\ [][(st.pc = "current_speed" /\ st'.pc = "pitch") =>
            LET v == actor.velocity
                s == st'.current_speed
            IN  /\ s >= 0
                /\ s * s = v[1] * v[1] + v[2] * v[2] + v[3] * v[3]
                /\ (v = st.velocity =>
                       (s = bus[1].longitudinal_velocity /\ s = speed))]_vars

\* The controller was stepped with speed 5 in a step that published speed 0:
\* the actor sped up between the two queries.
C18_Witness ==
    /\ st.pc = "apply_control"
    /\ calls.stepped[1].current_speed = 5
    /\ bus[1].longitudinal_velocity = 0
    /\ speed = 0
    /\ effects.put = 1

\* C14: under fair scheduling of the two contexts, a callback that has been
\* entered returns, and a step that has reached Mutex::lock gets its
\* snapshot.
C14_NoUnboundedWait ==
    /\ (cb.pc # "idle") ~> (cb.pc = "idle")
    /\ (st.pc = "lock") ~> (st.pc = "current_speed")

\* The callback waits for the mutex while step owns it and copies.
C14_Witness ==
    /\ cb.pc = "lock"
    /\ mutex = "step"
    /\ st.pc = "read"
    /\ st.i = 2

====
